---- MODULE Spec2Model ----
(***************************************************************************)
(* Model of the save_visualization command (src-tauri/src/commands.rs).    *)
(*                                                                         *)
(* The command is `fs::write(PathBuf::from(&path), &data)` followed by the *)
(* construction of the result.  std::fs::write is File::create (open with  *)
(* write + create + truncate) followed by write_all (a loop of write calls *)
(* on the handle's own offset) and the drop of the handle.  The file       *)
(* system is modelled as a tree of directories and files; the faults the   *)
(* operating system may raise during the write (disk full, I/O error) are  *)
(* chosen by the environment.                                              *)
(*                                                                         *)
(* A Rust String is a sequence of Unicode scalar values, written here as   *)
(* code points:  47 '/', 97 'a', 100 'd', 233 'e-acute', 0 NUL.            *)
(* An OsString / PathBuf (Unix) is the sequence of its UTF-8 bytes.        *)
(***************************************************************************)
EXTENDS Integers, Sequences, FiniteSets, TLC

VARIABLES
    fs,     \* the file system: location (sequence of names) -> node
    fs0,    \* the file system the application was started on (never written)
    inv     \* per invoker: the invocation in progress or just returned

vars == <<fs, fs0, inv>>

---------------------------------------------------------------------------
(* Bounds *)

MaxData == 2        \* longest byte payload

Byte == {0, 1}      \* the byte values used; the code never inspects a byte

RECURSIVE SeqsUpTo(_, _)
SeqsUpTo(S, n) ==
    IF n = 0 THEN {<<>>}
    ELSE LET shorter == SeqsUpTo(S, n - 1)
         IN  shorter \cup {Append(s, x) : s \in {t \in shorter : Len(t) = n - 1}, x \in S}

Datas == SeqsUpTo(Byte, MaxData)

\* The path arguments tried: "", "d", "d/", "d/a", "d/<e-acute>", "a<NUL>".
PathInputs ==
    { <<>>, <<100>>, <<100, 47>>, <<100, 47, 97>>, <<100, 47, 233>>, <<97, 0>> }

---------------------------------------------------------------------------
(* Strings and paths *)

RECURSIVE Flatten(_)
Flatten(ss) == IF ss = <<>> THEN <<>> ELSE Head(ss) \o Flatten(Tail(ss))

\* UTF-8 encoding of one scalar value (one and two byte forms, three for U+FFFD).
Utf8Char(cp) ==
    IF cp < 128 THEN <<cp>>
    ELSE IF cp < 2048 THEN <<192 + (cp \div 64), 128 + (cp % 64)>>
    ELSE <<224 + (cp \div 4096), 128 + ((cp \div 64) % 64), 128 + (cp % 64)>>

\* PathBuf::from(&path): the OsString holding the UTF-8 bytes of the String.
PathBufFrom(path) == Flatten([i \in 1..Len(path) |-> Utf8Char(path[i])])

IsCont(b) == b >= 128 /\ b <= 191

\* String::from_utf8_lossy: valid sequences decode, every invalid byte becomes U+FFFD.
RECURSIVE FromUtf8Lossy(_)
FromUtf8Lossy(bytes) ==
    IF bytes = <<>> THEN <<>>
    ELSE LET b == Head(bytes)
             rest == Tail(bytes)
         IN  IF b < 128 THEN <<b>> \o FromUtf8Lossy(rest)
             ELSE IF b >= 194 /\ b <= 223 /\ Len(rest) >= 1 /\ IsCont(rest[1])
                  THEN <<(b - 192) * 64 + (rest[1] - 128)>> \o FromUtf8Lossy(Tail(rest))
             ELSE IF /\ b >= 224 /\ b <= 239 /\ Len(rest) >= 2 /\ IsCont(rest[1]) /\ IsCont(rest[2])
                     /\ (b = 224 => rest[1] >= 160) /\ (b = 237 => rest[1] <= 159)
                  THEN <<(b - 224) * 4096 + (rest[1] - 128) * 64 + (rest[2] - 128)>>
                       \o FromUtf8Lossy(Tail(Tail(rest)))
             ELSE <<65533>> \o FromUtf8Lossy(rest)

\* Mutant: the conversion keeps ASCII only, every other byte becomes U+FFFD.
ToStringLossyAscii(pathBuf) ==
    [i \in 1..Len(pathBuf) |-> IF pathBuf[i] < 128 THEN pathBuf[i] ELSE 65533]

\* path_buf.to_string_lossy().to_string()
ToStringLossy(pathBuf) == FromUtf8Lossy(pathBuf)

---------------------------------------------------------------------------
(* The file system the command writes to *)

NoErr == "none"

Dir(w)  == [kind |-> "dir",  writable |-> w,    data |-> <<>>]
File(d) == [kind |-> "file", writable |-> TRUE, data |-> d]

Root == <<>>
DirD == <<(<<100>>)>>       \* the directory (or file) named "d" of the working directory

\* The file systems the command may be started on: the working directory is
\* writable and "d" is a writable directory, a read-only directory, or missing.
InitFs ==
    { (Root :> Dir(TRUE)) @@ (DirD :> Dir(TRUE)),
      (Root :> Dir(TRUE)) @@ (DirD :> Dir(FALSE)),
      (Root :> Dir(TRUE)) }

\* The components of a path: split at '/', empty components dropped.
RECURSIVE Components(_, _)
Components(bytes, cur) ==
    IF bytes = <<>> THEN (IF cur = <<>> THEN <<>> ELSE <<cur>>)
    ELSE IF Head(bytes) = 47
         THEN (IF cur = <<>> THEN <<>> ELSE <<cur>>) \o Components(Tail(bytes), <<>>)
         ELSE Components(Tail(bytes), Append(cur, Head(bytes)))

\* Walk the directories `comps` from `loc`: the directory reached, or the error.
RECURSIVE WalkDirs(_, _, _)
WalkDirs(f, loc, comps) ==
    IF comps = <<>> THEN [err |-> NoErr, loc |-> loc]
    ELSE LET next == Append(loc, Head(comps))
         IN  IF next \notin DOMAIN f THEN [err |-> "NotFound", loc |-> loc]
             ELSE IF f[next].kind # "dir" THEN [err |-> "NotADirectory", loc |-> loc]
             ELSE WalkDirs(f, next, Tail(comps))

\* Resolution of a path to the location of its last component and that
\* location's parent directory.
Resolve(f, pathBuf) ==
    LET comps == Components(pathBuf, <<>>)
        trailing == pathBuf # <<>> /\ pathBuf[Len(pathBuf)] = 47
    IN  IF \E i \in 1..Len(pathBuf) : pathBuf[i] = 0
            THEN [err |-> "InvalidInput", loc |-> Root, trailing |-> FALSE]
        ELSE IF pathBuf = <<>>
            THEN [err |-> "NotFound", loc |-> Root, trailing |-> FALSE]
        ELSE IF comps = <<>>
            THEN [err |-> NoErr, loc |-> Root, trailing |-> TRUE]
        ELSE LET w == WalkDirs(f, Root, SubSeq(comps, 1, Len(comps) - 1))
             IN  IF w.err # NoErr THEN [err |-> w.err, loc |-> Root, trailing |-> trailing]
                 ELSE [err |-> NoErr, loc |-> Append(w.loc, comps[Len(comps)]),
                       trailing |-> trailing]

Parent(loc) == SubSeq(loc, 1, Len(loc) - 1)

\* OpenOptions::open(path) for writing, with the `create` and `truncate`
\* options.  `openFault` is the fault the operating system raises on this
\* open (NoErr: none).
OpenOptionsOpen(f, pathBuf, openFault, create, truncate) ==
    LET r == Resolve(f, pathBuf)
        fail(e) == [err |-> e, fs |-> f, loc |-> Root]
    IN  IF r.err # NoErr THEN fail(r.err)
        ELSE IF r.loc = Root THEN fail("IsADirectory")
        ELSE IF r.loc \in DOMAIN f /\ f[r.loc].kind = "dir" THEN fail("IsADirectory")
        ELSE IF r.loc \in DOMAIN f /\ r.trailing THEN fail("NotADirectory")
        ELSE IF r.loc \notin DOMAIN f /\ ~create THEN fail("NotFound")
        ELSE IF r.loc \notin DOMAIN f /\ r.trailing THEN fail("IsADirectory")
        ELSE IF r.loc \notin DOMAIN f /\ ~f[Parent(r.loc)].writable THEN fail("PermissionDenied")
        ELSE IF openFault # NoErr THEN fail(openFault)
        ELSE IF r.loc \in DOMAIN f /\ ~truncate THEN [err |-> NoErr, fs |-> f, loc |-> r.loc]
        ELSE [err |-> NoErr, fs |-> (r.loc :> File(<<>>)) @@ f, loc |-> r.loc]

\* Mutant: the file is opened without the truncate option.
FileCreateNoTruncate(f, pathBuf, openFault) ==
    OpenOptionsOpen(f, pathBuf, openFault, TRUE, FALSE)

\* File::create(path): open for writing, creating the file if it is missing
\* and truncating it if it exists.
FileCreate(f, pathBuf, openFault) ==
    OpenOptionsOpen(f, pathBuf, openFault, TRUE, TRUE)

Max(a, b) == IF a >= b THEN a ELSE b
Min(a, b) == IF a <= b THEN a ELSE b

\* Mutant: the handle is in append mode, every write lands at the end of the file.
FsWriteAtAppend(f, loc, off, chunk) ==
    [f EXCEPT ![loc] = File(f[loc].data \o chunk)]

\* One write(2) of `chunk` through a handle whose offset is `off`: the bytes
\* land at the offset, the file grows as needed, a gap reads as zeros.
FsWriteAt(f, loc, off, chunk) ==
    LET old == f[loc].data
        n == Max(Len(old), off + Len(chunk))
        new == [i \in 1..n |->
                    IF i > off /\ i <= off + Len(chunk) THEN chunk[i - off]
                    ELSE IF i <= Len(old) THEN old[i]
                    ELSE 0]
    IN  [f EXCEPT ![loc] = File(new)]

\* fs::read(path): the content of the file the path names, or failure.
FsRead(f, pathBuf) ==
    LET r == Resolve(f, pathBuf)
    IN  IF r.err = NoErr /\ ~r.trailing /\ r.loc \in DOMAIN f /\ f[r.loc].kind = "file"
        THEN [ok |-> TRUE, data |-> f[r.loc].data]
        ELSE [ok |-> FALSE, data |-> <<>>]

\* The faults the operating system may raise during an open or a write.
IoFaults == {"StorageFull", "Io"}

\* What the environment does to one fs::write call: `n` is the number of
\* bytes written before a write fails with `fault` (n = -1: the open fails
\* with it; n = Len(data): nothing fails).
Plans(data) ==
    {[n |-> Len(data), fault |-> NoErr]}
        \cup {[n |-> k, fault |-> e] : k \in -1..(Len(data) - 1), e \in IoFaults}

OpenFault(plan) == IF plan.n = -1 THEN plan.fault ELSE NoErr

\* Mutant: the loop stops one byte early and reports success.
WriteAllDropsLast(f, loc, data, plan) ==
    LET upto == Min(plan.n, Len(data) - 1)
        g == IF upto > 0 THEN FsWriteAt(f, loc, 0, SubSeq(data, 1, upto)) ELSE f
    IN  [fs |-> g, err |-> IF plan.n < Len(data) THEN plan.fault ELSE NoErr]

\* Mutant: the result of a failed write is ignored.
WriteAllSwallowsError(f, loc, data, plan) ==
    LET upto == Min(plan.n, Len(data))
        g == IF upto > 0 THEN FsWriteAt(f, loc, 0, SubSeq(data, 1, upto)) ELSE f
    IN  [fs |-> g, err |-> NoErr]

\* write_all(data) on a fresh handle with no other writer: writes go on until
\* the buffer is empty or a write fails.
WriteAll(f, loc, data, plan) ==
    LET upto == Min(plan.n, Len(data))
        g == IF upto > 0 THEN FsWriteAt(f, loc, 0, SubSeq(data, 1, upto)) ELSE f
    IN  [fs |-> g, err |-> IF upto < Len(data) THEN plan.fault ELSE NoErr]

\* Mutant: the missing parent directory of a two-component path is created
\* before the file is (create_dir_all on the parent).
FsWriteCreatesParent(f, pathBuf, data, plan) ==
    LET comps == Components(pathBuf, <<>>)
        dir == SubSeq(comps, 1, 1)
        g == IF Len(comps) = 2 /\ dir \notin DOMAIN f THEN (dir :> Dir(TRUE)) @@ f ELSE f
        o == FileCreate(g, pathBuf, OpenFault(plan))
    IN  IF o.err # NoErr THEN [fs |-> g, err |-> o.err]
        ELSE WriteAll(o.fs, o.loc, data, plan)

\* std::fs::write(path, data)
FsWrite(f, pathBuf, data, plan) ==
    LET o == FileCreate(f, pathBuf, OpenFault(plan))
    IN  IF o.err # NoErr THEN [fs |-> f, err |-> o.err]
        ELSE WriteAll(o.fs, o.loc, data, plan)

\* Display of std::io::Error
IoErrorDisplay(e) ==
    CASE e = "NotFound"         -> "No such file or directory (os error 2)"
      [] e = "PermissionDenied" -> "Permission denied (os error 13)"
      [] e = "NotADirectory"    -> "Not a directory (os error 20)"
      [] e = "IsADirectory"     -> "Is a directory (os error 21)"
      [] e = "StorageFull"      -> "No space left on device (os error 28)"
      [] e = "Io"               -> "Input/output error (os error 5)"
      [] e = "InvalidInput"     -> "file name contained an unexpected NUL byte"

---------------------------------------------------------------------------
(* The command *)

NoResult == [tag |-> "None"]
Ok(v)    == [tag |-> "Ok", value |-> v]
Err(m)   == [tag |-> "Err", error |-> m]

SaveResult(success, path) == [success |-> success, path |-> path]

\* Mutant: the I/O error is passed on without the prefix.
MapErrNoPrefix(e) == IoErrorDisplay(e)

\* .map_err(|e| format!("Failed to write file: {}", e))
MapErr(e) == "Failed to write file: " \o IoErrorDisplay(e)

\* Mutant: a failure is encoded as a SaveResult with success = false.
OutcomeSuccessFalse(path_buf, err) ==
    Ok(SaveResult(err = NoErr, ToStringLossy(path_buf)))

\* The value save_visualization returns once fs::write has returned `err`.
Outcome(path_buf, err) ==
    IF err # NoErr THEN Err(MapErr(err))
    ELSE Ok(SaveResult(TRUE, ToStringLossy(path_buf)))

\* Mutant: an empty path falls back to a default file name ("a").
SaveVisualizationDefaultName(f, path, data, plan) ==
    LET path_buf == PathBufFrom(IF path = <<>> THEN <<97>> ELSE path)
        w == FsWrite(f, path_buf, data, plan)
    IN  [fs |-> w.fs, ioerr |-> w.err, writes |-> 1, result |-> Outcome(path_buf, w.err)]

\* save_visualization(path, data) run to completion with no other writer.
SaveVisualization(f, path, data, plan) ==
    LET path_buf == PathBufFrom(path)
        w == FsWrite(f, path_buf, data, plan)
    IN  [fs |-> w.fs, ioerr |-> w.err, writes |-> 1, result |-> Outcome(path_buf, w.err)]

---------------------------------------------------------------------------
(* State machine *)

\* The execution contexts of the host that may have an invocation running.
Procs == {1, 2}

Idle ==
    [pc |-> "idle", path |-> <<>>, data |-> <<>>, plan |-> [n |-> 0, fault |-> NoErr],
     off |-> 0, loc |-> Root, before |-> [ok |-> FALSE, data |-> <<>>],
     ioerr |-> NoErr, writes |-> 0, result |-> NoResult]

Init ==
    /\ fs \in InitFs
    /\ fs0 = fs
    /\ inv = [p \in Procs |-> Idle]

\* The host dispatches save_visualization(path, data) while no other
\* invocation runs; the handler runs to completion.
Save(p, path, data, plan) ==
    /\ \A q \in Procs : inv[q].pc = "idle"
    /\ LET r == SaveVisualization(fs, path, data, plan)
       IN  /\ fs' = r.fs
           /\ inv' = [inv EXCEPT ![p] =
                        [pc |-> "returned", path |-> path, data |-> data, plan |-> Idle.plan,
                         off |-> 0, loc |-> Root,
                         before |-> FsRead(fs, PathBufFrom(path)),
                         ioerr |-> r.ioerr, writes |-> r.writes, result |-> r.result]]
    /\ UNCHANGED fs0

\* The result has crossed the command boundary; request and result are discarded.
Return(p) ==
    /\ inv[p].pc = "returned"
    /\ inv' = [inv EXCEPT ![p] = Idle]
    /\ UNCHANGED <<fs, fs0>>

Next ==
    \/ \E path \in PathInputs, data \in Datas : \E plan \in Plans(data) :
            Save(1, path, data, plan)
    \/ Return(1)

Spec == Init /\ [][Next]_vars

---------------------------------------------------------------------------
(* Concurrent invocations: the host runs each invocation on its own        *)
(* execution context, and the steps of fs::write (the open, each write of  *)
(* write_all, the drop of the handle) of different invocations interleave. *)

\* "d", "d/a", "d/<e-acute>"
ConcPaths == { <<100>>, <<100, 47, 97>>, <<100, 47, 233>> }

ConcDatas == { <<>>, <<0>>, <<1, 1>> }

ConcPlans(data) == {pl \in Plans(data) : pl.fault \in {NoErr, "StorageFull"}}

ConcInit ==
    /\ fs \in {f \in InitFs : DirD \notin DOMAIN f \/ f[DirD].writable}
    /\ fs0 = fs
    /\ inv = [p \in Procs |-> Idle]

\* The invocation starts: PathBuf::from, then File::create inside fs::write.
Open(p, path, data, plan) ==
    /\ inv[p].pc = "idle"
    /\ LET path_buf == PathBufFrom(path)
           o == FileCreate(fs, path_buf, OpenFault(plan))
           started == [pc |-> "writing", path |-> path, data |-> data, plan |-> plan,
                       off |-> 0, loc |-> o.loc, before |-> FsRead(fs, path_buf),
                       ioerr |-> NoErr, writes |-> 1, result |-> NoResult]
       IN  /\ fs' = o.fs
           /\ inv' = [inv EXCEPT ![p] =
                        IF o.err = NoErr THEN started
                        ELSE [started EXCEPT !.pc = "returned", !.loc = Root, !.ioerr = o.err,
                                             !.result = Outcome(path_buf, o.err)]]
    /\ UNCHANGED fs0

\* Mutant: the invocations share one cursor, a write goes out at the sum of
\* the offsets of all of them.
WriteSharedCursor(p, c) ==
    /\ inv[p].pc = "writing"
    /\ inv[p].off + c <= Min(inv[p].plan.n, Len(inv[p].data))
    /\ fs' = FsWriteAt(fs, inv[p].loc,
                       inv[p].off + inv[CHOOSE q \in Procs : q # p].off,
                       SubSeq(inv[p].data, inv[p].off + 1, inv[p].off + c))
    /\ inv' = [inv EXCEPT ![p].off = @ + c]
    /\ UNCHANGED fs0

\* One write of the write_all loop: the next c bytes go out at the handle's offset.
Write(p, c) ==
    /\ inv[p].pc = "writing"
    /\ inv[p].off + c <= Min(inv[p].plan.n, Len(inv[p].data))
    /\ fs' = FsWriteAt(fs, inv[p].loc, inv[p].off,
                       SubSeq(inv[p].data, inv[p].off + 1, inv[p].off + c))
    /\ inv' = [inv EXCEPT ![p].off = @ + c]
    /\ UNCHANGED fs0

\* A write of the loop fails: write_all returns the error, `?` returns the
\* mapped error from the command.
WriteFail(p) ==
    /\ inv[p].pc = "writing"
    /\ inv[p].off = inv[p].plan.n
    /\ inv[p].off < Len(inv[p].data)
    /\ inv' = [inv EXCEPT ![p].pc = "returned",
                          ![p].ioerr = inv[p].plan.fault,
                          ![p].result = Outcome(PathBufFrom(inv[p].path), inv[p].plan.fault)]
    /\ UNCHANGED <<fs, fs0>>

\* The buffer is written: the handle is dropped and the command returns Ok.
Close(p) ==
    /\ inv[p].pc = "writing"
    /\ inv[p].off = Len(inv[p].data)
    /\ inv' = [inv EXCEPT ![p].pc = "returned",
                          ![p].result = Outcome(PathBufFrom(inv[p].path), NoErr)]
    /\ UNCHANGED <<fs, fs0>>

ConcNext ==
    \/ \E p \in Procs, path \in ConcPaths, data \in ConcDatas :
            \E plan \in ConcPlans(data) : Open(p, path, data, plan)
    \/ \E p \in Procs, c \in 1..MaxData : Write(p, c)
    \/ \E p \in Procs : WriteFail(p)
    \/ \E p \in Procs : Close(p)

SpecConc == ConcInit /\ [][ConcNext]_vars

---------------------------------------------------------------------------
(* Properties *)

PathBufOf(p) == PathBufFrom(inv[p].path)
HasReturned(p) == inv[p].pc = "returned"
IsOk(p) == inv[p].result.tag = "Ok"
IsErr(p) == inv[p].result.tag = "Err"
ReadBack(p) == FsRead(fs, PathBufOf(p))
Contents(d) == [ok |-> TRUE, data |-> d]

\* The path's parent directory exists and is writable.
ParentWritable(f, pathBuf) ==
    LET r == Resolve(f, pathBuf)
    IN  /\ r.err = NoErr
        /\ r.loc # Root
        /\ f[Parent(r.loc)].writable

\* The path names a directory: by a trailing separator or by what it resolves to.
NamesDirectory(f, pathBuf) ==
    LET r == Resolve(f, pathBuf)
    IN  r.err = NoErr /\ (r.trailing \/ (r.loc \in DOMAIN f /\ f[r.loc].kind = "dir"))

IsPrefix(s, t) == Len(s) <= Len(t) /\ s = SubSeq(t, 1, Len(s))

C1_WitnessEmpty ==
    /\ HasReturned(1) /\ IsOk(1)
    /\ inv[1].data = <<>>
    /\ ~inv[1].before.ok
    /\ ReadBack(1) = Contents(<<>>)

\* C2: a successful save on a path that already holds a file leaves exactly
\* the new data there, whatever the file held and however long it was (no
\* leftover tail, no mixture); and an existing file never makes the save fail:
\* with a file at path, only a fault of the operating system does.
C2_FullOverwrite ==
    HasReturned(1) /\ inv[1].before.ok
        => /\ IsOk(1) => ReadBack(1) = Contents(inv[1].data)
           /\ IsErr(1) => inv[1].ioerr \in IoFaults
           /\ inv[1].ioerr = NoErr => IsOk(1)

C2_Witness ==
    /\ HasReturned(1) /\ IsOk(1)
    /\ inv[1].before.ok
    /\ Len(inv[1].before.data) > Len(inv[1].data)
    /\ inv[1].data # <<>>
    /\ ~IsPrefix(inv[1].data, inv[1].before.data)
    /\ ReadBack(1) = Contents(inv[1].data)

\* C3: a SaveResult is returned only after every byte of data has been
\* written and fs::write has returned success; every SaveResult returned has
\* success = true; a failed write is reported as the error outcome.
C3_SaveResultOnlyAfterWholeWrite ==
    \A p \in Procs :
        /\ IsOk(p) => /\ HasReturned(p)
                      /\ inv[p].result.value.success = TRUE
                      /\ inv[p].ioerr = NoErr
                      /\ inv[p].off = Len(inv[p].data)
                      /\ inv[p].writes = 1
        /\ HasReturned(p) /\ inv[p].ioerr # NoErr => IsErr(p)
        /\ ~HasReturned(p) => inv[p].result = NoResult

C3_Witness ==
    /\ HasReturned(1) /\ IsOk(1) /\ Len(inv[1].data) = 2
    /\ HasReturned(2) /\ IsErr(2) /\ inv[2].off = 1 /\ inv[2].ioerr = "StorageFull"

\* C4 as stated: after an invocation either the call succeeded and the file
\* holds exactly data, or it failed and the file at path is as it was before.
C4_AllOrNothing ==
    HasReturned(1)
        => \/ IsOk(1) /\ ReadBack(1) = Contents(inv[1].data)
           \/ IsErr(1) /\ ReadBack(1) = inv[1].before

\* C4 amended: after an invocation either the call succeeded and the file
\* holds exactly data, or it failed; a call that failed at the open leaves
\* the file at path as it was, and a call that failed in a write (disk full,
\* I/O error) leaves at path a file holding a proper prefix of data, possibly
\* empty, in place of what was there.
C4_SuccessOrPrefix ==
    HasReturned(1)
        => \/ IsOk(1) /\ ReadBack(1) = Contents(inv[1].data)
           \/ IsErr(1) /\ ReadBack(1) = inv[1].before
           \/ /\ IsErr(1) /\ inv[1].ioerr \in IoFaults
              /\ ReadBack(1).ok
              /\ IsPrefix(ReadBack(1).data, inv[1].data)
              /\ ReadBack(1).data # inv[1].data

C4_Witness ==
    /\ HasReturned(1) /\ IsErr(1)
    /\ inv[1].before.ok /\ Len(inv[1].before.data) = 2
    /\ Len(inv[1].data) = 2
    /\ Len(ReadBack(1).data) = 1
    /\ ReadBack(1).data[1] = inv[1].data[1]
    /\ ReadBack(1).data[1] # inv[1].before.data[1]

\* The parent directory of the path does not exist: a directory component
\* before the last component is missing or is not a directory.
ParentMissing(f, pathBuf) ==
    LET comps == Components(pathBuf, <<>>)
    IN  /\ \A i \in 1..Len(pathBuf) : pathBuf[i] # 0
        /\ Len(comps) >= 2
        /\ WalkDirs(f, Root, SubSeq(comps, 1, Len(comps) - 1)).err # NoErr

\* The step in which invocation 1 runs from dispatch to return.
Completes1 == inv[1].pc = "idle" /\ inv'[1].pc = "returned"

\* C5: a save whose path has a missing parent directory fails, for every data,
\* and changes nothing in the file system: no file is created at path and the
\* missing directory is not created.
C5_MissingParentFails ==
    [][ Completes1 /\ ParentMissing(fs, PathBufFrom(inv'[1].path))
            => /\ inv'[1].result.tag = "Err"
               /\ fs' = fs
               /\ ~FsRead(fs', PathBufFrom(inv'[1].path)).ok
               /\ ParentMissing(fs', PathBufFrom(inv'[1].path)) ]_vars

C5_Witness ==
    /\ HasReturned(1) /\ IsErr(1)
    /\ inv[1].path = <<100, 47, 97>>
    /\ inv[1].data = <<>>
    /\ inv[1].ioerr = "NotFound"
    /\ ParentMissing(fs, PathBufOf(1))
    /\ DOMAIN fs = {Root}

\* C6: a save with the empty path fails for every data and creates no file;
\* the failure is the one fs::write reports, the write being attempted once.
C6_EmptyPathFails ==
    [][ Completes1 /\ inv'[1].path = <<>>
            => /\ inv'[1].result.tag = "Err"
               /\ inv'[1].writes = 1
               /\ inv'[1].ioerr # NoErr
               /\ fs' = fs ]_vars

C6_Witness ==
    /\ HasReturned(1) /\ IsErr(1)
    /\ inv[1].path = <<>>
    /\ Len(inv[1].data) = 2
    /\ inv[1].result.error = "Failed to write file: No such file or directory (os error 2)"

\* The message the caller must see for each cause of failure.
ExpectedMessage(e) ==
    CASE e = "NotFound"         -> "Failed to write file: No such file or directory (os error 2)"
      [] e = "PermissionDenied" -> "Failed to write file: Permission denied (os error 13)"
      [] e = "NotADirectory"    -> "Failed to write file: Not a directory (os error 20)"
      [] e = "IsADirectory"     -> "Failed to write file: Is a directory (os error 21)"
      [] e = "StorageFull"      -> "Failed to write file: No space left on device (os error 28)"
      [] e = "Io"               -> "Failed to write file: Input/output error (os error 5)"
      [] e = "InvalidInput"     -> "Failed to write file: file name contained an unexpected NUL byte"

\* C7: whenever fs::write fails, for any cause, save returns the error
\* outcome, having called fs::write once, and the error is the string
\* "Failed to write file: " followed by the description of the I/O failure.
C7_FailurePropagation ==
    HasReturned(1) /\ inv[1].ioerr # NoErr
        => /\ inv[1].result = Err(ExpectedMessage(inv[1].ioerr))
           /\ inv[1].writes = 1

C7_Witness ==
    /\ HasReturned(1)
    /\ inv[1].ioerr = "IsADirectory"
    /\ inv[1].path = <<100>>
    /\ inv[1].result = Err("Failed to write file: Is a directory (os error 21)")

\* C8: the path of a returned SaveResult resolves to the file that was
\* written, and a read through it yields data.
C8_ReturnedPathTargetsFile ==
    HasReturned(1) /\ IsOk(1)
        => LET back == PathBufFrom(inv[1].result.value.path)
           IN  /\ Resolve(fs, back).err = NoErr
               /\ Resolve(fs, back).loc = Resolve(fs, PathBufOf(1)).loc
               /\ FsRead(fs, back) = Contents(inv[1].data)

C8_Witness ==
    /\ HasReturned(1) /\ IsOk(1)
    /\ inv[1].path = <<100, 47, 233>>
    /\ inv[1].result.value.path = <<100, 47, 233>>
    /\ fs[<<(<<100>>), (<<195, 169>>)>>].data = inv[1].data
    /\ inv[1].data # <<>>

Quiescent == \A p \in Procs : HasReturned(p)
SamePath == \A p, q \in Procs : inv[p].path = inv[q].path

CompsOf(p) == Components(PathBufOf(p), <<>>)

\* The invocation run alone on the file system the application started on.
Alone(p) == SaveVisualization(fs0, inv[p].path, inv[p].data, inv[p].plan)

AsIfAlone(p) ==
    /\ inv[p].result = Alone(p).result
    /\ ReadBack(p) = FsRead(Alone(p).fs, PathBufOf(p))

\* A step of one invocation changes no other invocation, no directory, and
\* no file but the one its path names.
FrameStep ==
    \A p \in Procs :
        inv'[p] # inv[p]
            => LET target == Resolve(fs, PathBufFrom(inv'[p].path)).loc
               IN  /\ \A q \in Procs \ {p} : inv'[q] = inv[q]
                   /\ fs0' = fs0
                   /\ DOMAIN fs \subseteq DOMAIN fs'
                   /\ DOMAIN fs' \subseteq DOMAIN fs \cup {target}
                   /\ \A loc \in DOMAIN fs :
                        loc # target \/ fs[loc].kind = "dir" => fs'[loc] = fs[loc]

\* C10 as stated: an invocation changes nothing but the file at its path, and
\* concurrent invocations on distinct paths each produce the result and the
\* file content they produce when run alone.
C10_FrameDistinctPaths ==
    /\ [][FrameStep]_vars
    /\ [](\A p \in Procs :
            ( /\ HasReturned(p)
              /\ \A q \in Procs \ {p} : inv[q].pc # "idle" => inv[q].path # inv[p].path )
                => AsIfAlone(p))

\* C10 amended: an invocation, successful or failed, changes nothing but the
\* file at its path, and concurrent invocations whose paths name distinct
\* locations, neither location lying on the path to the other, each produce
\* the result and the file content they produce when run alone.
C10_FrameIndependentPaths ==
    /\ [][FrameStep]_vars
    /\ [](\A p \in Procs :
            ( /\ HasReturned(p)
              /\ \A q \in Procs \ {p} :
                    inv[q].pc # "idle"
                        => ~IsPrefix(CompsOf(p), CompsOf(q)) /\ ~IsPrefix(CompsOf(q), CompsOf(p)) )
                => AsIfAlone(p))

C10_Witness ==
    /\ Quiescent
    /\ inv[1].path = <<100, 47, 97>> /\ inv[2].path = <<100, 47, 233>>
    /\ IsOk(1) /\ inv[1].data = <<1, 1>>
    /\ IsErr(2) /\ inv[2].data = <<1, 1>> /\ inv[2].off = 1
    /\ ReadBack(1) = Contents(<<1, 1>>)
    /\ ReadBack(2) = Contents(<<1>>)

====
